---------------------------- MODULE Spec2Model ----------------------------
(***************************************************************************)
(* A model of src/echo_server/echo_server.cc: the TCP echo server built on *)
(* the libuv event loop.  The program's own functions (start,              *)
(* connection_cb, alloc_cb, read_cb, write_cb, free_write_data,            *)
(* close_and_free, error) are translated from the source.  The libuv calls *)
(* they make (uv_tcp_init, uv_tcp_bind, uv_listen, uv_accept,              *)
(* uv_read_start, uv_write, uv_close) are modelled by their documented     *)
(* contract: the status a call returns is an input chosen by the           *)
(* environment, uv_close only requests the close, and the loop finishes it *)
(* in a later iteration, running the callbacks of the writes that are      *)
(* still pending on the handle.                                            *)
(*                                                                         *)
(* The second addon of the repository, src/native_wrap (a third-party      *)
(* object wrapped in a V8 object whose tracker destroys it on garbage      *)
(* collection), is a program of its own: it is modelled by the variables   *)
(* and actions of the specification SpecNW further down, and does not      *)
(* move in Spec.                                                           *)
(***************************************************************************)
EXTENDS Integers, Sequences, FiniteSets, Bags, TLC

(***************************************************************************)
(* Bounds of the model.                                                    *)
(***************************************************************************)
MaxFailedStarts == 1
    \* calls of start() that fail at parsing, binding or listening
MaxConns == 2
    \* invocations of connection_cb
MaxReads == 2
    \* buffers alloc_cb hands out, over all connections
SuggestedSize == 2
    \* the size the loop suggests to alloc_cb (64 KiB in libuv)
MaxChunk == 1
    \* the most bytes one read delivers (at most the buffer's length)
MaxObjects == 2
    \* calls of createObject
MaxCalls == 2
    \* applications of plus_one to one third-party object

(***************************************************************************)
(* libuv status codes (negated errno values; 0 is success).                *)
(***************************************************************************)
UV_EOF == -4095
UV_ECONNRESET == -104
UV_ENOBUFS == -105
UV_ECANCELED == -125
UV_EPIPE == -32
UV_EAGAIN == -11
UV_EMFILE == -24
UV_EINVAL == -22
UV_EACCES == -13
UV_EADDRINUSE == -98

NULL == "NULL"
default_loop == "uv_default_loop"
Server == 0
    \* the handle id of server_ (client handles are 1, 2, ...)

ConnIds == 1..MaxConns
BufIds == 1..MaxReads

\* the content of buffer memory a read did not fill
Garbage == <<0, 0>>

\* the JavaScript argument lists start() is called with
Num(v) == [type |-> "number", val |-> v]
Str(v) == [type |-> "string", val |-> v]
StartArgs == {<<>>, <<Str("8080")>>, <<Num(8080)>>, <<Num(65536 + 8080)>>}

VARIABLES
    loop_,            \* static uv_loop_t *loop_: NULL until start() succeeded
    server_,          \* static uv_tcp_t server_: the listener handle
    thrown,           \* what the last call of start() threw ("" when nothing)
    clients,          \* the uv_tcp_t handles connection_cb allocated
    bufs,             \* the read buffers alloc_cb allocated, and their write_data
    wq,               \* per client, the write requests libuv holds, in issue order
    closing_handles,  \* handles whose close was requested and is not finished
    log,              \* stderr: the bag of messages error() printed
    rcvd,             \* per client, the bytes its read completions delivered
    sent,             \* per client, the payloads of the writes uv_write took
    wire,             \* per client, the bytes transmitted back to the peer
    crashed           \* the process was terminated

\* the state of the native_wrap addon
VARIABLES
    objects,          \* the third_party::Object instances create() allocated
    handles,          \* the V8 objects NewInstance made, and their trackers
    result,           \* what the last call into the addon returned or threw
    aborted           \* the process running the addon was terminated

echo_vars == <<loop_, server_, thrown, clients, bufs, wq, closing_handles, log,
               rcvd, sent, wire, crashed>>
nw_vars == <<objects, handles, result, aborted>>
vars == <<echo_vars, nw_vars>>

-----------------------------------------------------------------------------
(***************************************************************************)
(* Helpers on the heap and on stderr.                                      *)
(***************************************************************************)

\* error(prefix, status): one line on stderr
error(l, prefix, status) ==
    l (+) SetToBag({[prefix |-> prefix, status |-> status]})

\* how often error(prefix, status) has printed
Logged(prefix, status) == CopiesIn([prefix |-> prefix, status |-> status], log)

\* ::free(p) of a read buffer
free_buf(b, id, by) ==
    [b EXCEPT ![id].frees = @ + 1, ![id].owner = "freed", ![id].freedBy = by]

\* free_write_data(wd): frees the payload and the write_data itself
free_write_data(b, id, by) ==
    [free_buf(b, id, by) EXCEPT ![id].wd = "freed", ![id].wdFrees = @ + 1]

\* mutant: the handle is closed and its memory is never freed
close_and_free_NoFree(cl, client) ==
    [cl EXCEPT ![client].st = "closing", ![client].closes = @ + 1]

\* mutant: the handle is freed without uv_close, so the loop keeps reading it
close_and_free_NoClose(cl, client) ==
    [cl EXCEPT ![client].frees = @ + 1]

\* uv_close(handle, NULL) followed by ::free(handle), on a client handle
close_and_free(cl, client) ==
    [cl EXCEPT ![client].st = "closing",
               ![client].closes = @ + 1,
               ![client].frees = @ + 1]

\* the client handle the next ::malloc(sizeof(uv_tcp_t)) of connection_cb yields
NextClient == 1 + Cardinality({c \in ConnIds : clients[c].st # "unalloc"})

\* the buffer the next alloc_cb yields
NextBuf == 1 + Cardinality({b \in BufIds : bufs[b].owner # "unalloc"})

-----------------------------------------------------------------------------
(***************************************************************************)
(* Initial state: the addon is loaded, nothing has been started.           *)
(***************************************************************************)
NoClient == [st |-> "unalloc", closes |-> 0, frees |-> 0, reads |-> 0,
             ended |-> 0]
NoBuf == [stream |-> 0, nread |-> 0, r |-> 0, owner |-> "unalloc", frees |-> 0,
          freedBy |-> "none", wd |-> "none", wdFrees |-> 0]

\* a double: the number hi * 2^53 + lo.  Below 2^53 every integer is a
\* double; from 2^53 on only the even ones are
Double(hi, lo) == [hi |-> hi, lo |-> lo]

ObjIds == 1..MaxObjects

NoObject == [st |-> "unalloc", value_ |-> Double(0, 0), destroys |-> 0,
             stale |-> 0]
NoHandle == [st |-> "none", field1 |-> 0, tracker |-> "none", obj_ |-> 0,
             v |-> Double(0, 0), k |-> 0, via |-> {}, ret |-> Double(0, 0)]

\* the native_wrap addon after init(): no object has been created
InitNW ==
    /\ objects = [h \in ObjIds |-> NoObject]
    /\ handles = [i \in ObjIds |-> NoHandle]
    /\ result = "no call"
    /\ aborted = FALSE

Init ==
    /\ InitNW
    /\ loop_ = NULL
    /\ server_ = [st |-> "zero", port |-> 0, closes |-> 0, reinit |-> FALSE]
    /\ thrown = "no call"
    /\ clients = [c \in ConnIds |-> NoClient]
    /\ bufs = [b \in BufIds |-> NoBuf]
    /\ wq = [c \in ConnIds |-> <<>>]
    /\ closing_handles = {}
    /\ log = EmptyBag
    /\ rcvd = [c \in ConnIds |-> <<>>]
    /\ sent = [c \in ConnIds |-> <<>>]
    /\ wire = [c \in ConnIds |-> <<>>]
    /\ crashed = FALSE

-----------------------------------------------------------------------------
(***************************************************************************)
(* start(args): the entry point exported to JavaScript.                    *)
(*   rParse, rBind, rListen are the statuses uv_ip4_addr, uv_tcp_bind and  *)
(*   uv_listen return when start() gets to call them.                      *)
(***************************************************************************)

\* int port = args[0]->IntegerValue(), then htons(port) in uv_ip4_addr
TruncatePort(v) == v % 65536

\* uv_tcp_init(loop, &server_): (re)initialises the handle and registers it
\* with the loop; the handle must not be one the loop still has registered
uv_tcp_init_server(h) ==
    [h EXCEPT !.st = "init", !.port = 0,
              !.reinit = @ \/ h.st \in {"init", "listening", "closing"}]

\* mutant: the check of loop_ is missing
AlreadyStarted_Never == FALSE

\* if (loop_): the echo server has been started
AlreadyStarted == loop_ # NULL

\* what a call of start() leaves behind
StartResult(lp, srv, closing, l, exc) ==
    [loop_ |-> lp, server_ |-> srv, closing_handles |-> closing, log |-> l,
     thrown |-> exc]

\* mutant: loop_ is set before uv_listen is called, and stays set when it fails
start_listen_SetsLoopFirst(inited, port, rListen) ==
    IF rListen = 0 THEN
        StartResult(default_loop,
                    [inited EXCEPT !.st = "listening", !.port = port],
                    closing_handles, log, "")
    ELSE
        StartResult(default_loop,
                    [inited EXCEPT !.st = "closing", !.port = port,
                                   !.closes = @ + 1],
                    closing_handles \cup {Server},
                    error(log, "Error on listening", rListen),
                    "Failed to start")

\* r = uv_listen(&server_, 0, connection_cb) and what follows it: loop_ is
\* set on success, the handle is closed on failure
start_listen(inited, port, rListen) ==
    IF rListen = 0 THEN
        StartResult(default_loop,
                    [inited EXCEPT !.st = "listening", !.port = port],
                    closing_handles, log, "")
    ELSE
        \* uv_close(&server_, NULL)
        StartResult(loop_,
                    [inited EXCEPT !.st = "closing", !.port = port,
                                   !.closes = @ + 1],
                    closing_handles \cup {Server},
                    error(log, "Error on listening", rListen),
                    "Failed to start")

\* uv_tcp_init(loop, &server_); r = uv_tcp_bind(&server_, &addr, 0) and what
\* follows it
start_bind(port, rBind, rListen) ==
    LET inited == uv_tcp_init_server(server_)
    IN  IF rBind = 0 THEN start_listen(inited, port, rListen)
        ELSE StartResult(loop_, inited, closing_handles,
                         error(log, "Error on binding", rBind),
                         "Failed to start")

start(args, rParse, rBind, rListen) ==
    IF Len(args) # 1 THEN
        StartResult(loop_, server_, closing_handles, log,
                    "Wrong number of arguments")
    ELSE IF args[1].type # "number" THEN
        StartResult(loop_, server_, closing_handles, log, "Wrong arguments")
    ELSE IF AlreadyStarted THEN
        StartResult(loop_, server_, closing_handles, log, "Already started")
    ELSE LET port == TruncatePort(args[1].val)
         IN  IF rParse = 0 THEN start_bind(port, rBind, rListen)
             ELSE StartResult(loop_, server_, closing_handles,
                              error(log, "Error on parsing address", rParse),
                              "Failed to start")

\* the calls of start() that failed at parsing, binding or listening so far
FailedStarts ==
    Logged("Error on parsing address", UV_EINVAL)
    + Logged("Error on binding", UV_EACCES)
    + Logged("Error on listening", UV_EADDRINUSE)

Start ==
    /\ ~crashed
    /\ UNCHANGED nw_vars
    /\ \E args \in StartArgs :
       \E rParse \in {0, UV_EINVAL}, rBind \in {0, UV_EACCES},
          rListen \in {0, UV_EADDRINUSE} :
           LET res == start(args, rParse, rBind, rListen)
           IN  /\ rParse # 0 => rBind = 0
               /\ rBind # 0 => rListen = 0
               /\ res.log # log => FailedStarts < MaxFailedStarts
               /\ loop_' = res.loop_
               /\ server_' = res.server_
               /\ closing_handles' = res.closing_handles
               /\ log' = res.log
               /\ thrown' = res.thrown
    /\ UNCHANGED <<clients, bufs, wq, rcvd, sent, wire, crashed>>

-----------------------------------------------------------------------------
\* mutant: the client handle is allocated and initialised before the status
\* is looked at
connection_cb_AllocFirst(status, mem, rAccept, rReadStart) ==
    /\ log' = error(log, "Error on listening", status)
    /\ clients' = [clients EXCEPT ![NextClient].st = "init"]
    /\ UNCHANGED <<closing_handles, crashed>>

(***************************************************************************)
(* connection_cb(server, status): the loop reports an incoming connection  *)
(* on the listener.  rAccept and rReadStart are the statuses uv_accept and *)
(* uv_read_start return, mem what ::malloc(sizeof(uv_tcp_t)) returned      *)
(* ("live" memory or NULL).  The result of ::malloc is not checked:        *)
(* uv_tcp_init writes through a NULL client, which terminates the process. *)
(***************************************************************************)
connection_cb(status, mem, rAccept, rReadStart) ==
    IF status < 0 THEN
        /\ log' = error(log, "Error on listening", status)
        /\ UNCHANGED <<clients, closing_handles, crashed>>
    ELSE IF mem = NULL THEN
        /\ crashed' = TRUE
        /\ UNCHANGED <<clients, closing_handles, log>>
    ELSE LET client == NextClient
             \* uv_tcp_init(loop_, client)
             inited == [clients EXCEPT ![client].st = "init"]
         IN  /\ IF rAccept # 0 THEN
                    \* ::free(client)
                    /\ clients' = [inited EXCEPT ![client].frees = @ + 1]
                    /\ log' = error(log,
                                    "Error on accepting client connection",
                                    rAccept)
                    /\ UNCHANGED closing_handles
                ELSE IF rReadStart # 0 THEN
                    /\ clients' = close_and_free(inited, client)
                    /\ closing_handles' = closing_handles \cup {client}
                    /\ log' = error(log, "Error on reading client stream",
                                    rReadStart)
                ELSE
                    /\ clients' = [inited EXCEPT ![client].st = "reading"]
                    /\ UNCHANGED <<closing_handles, log>>
             /\ UNCHANGED crashed

\* the invocations of connection_cb so far
ConnCbCount == (NextClient - 1) + Logged("Error on listening", UV_EMFILE)

ConnectionCb ==
    /\ ~crashed
    /\ UNCHANGED nw_vars
    /\ server_.st = "listening"
    /\ ConnCbCount < MaxConns
    /\ \E status \in {0, UV_EMFILE}, mem \in {"live", NULL},
          rAccept \in {0, UV_EAGAIN}, rReadStart \in {0, UV_EINVAL} :
           connection_cb(status, mem, rAccept, rReadStart)
    /\ UNCHANGED <<loop_, server_, thrown, bufs, wq, rcvd, sent, wire>>

-----------------------------------------------------------------------------
(***************************************************************************)
(* The read path: alloc_cb, then read_cb with what the read delivered.     *)
(***************************************************************************)

\* alloc_cb(handle, suggested_size, buf): *buf = uv_buf_init(malloc(n), n);
\* base is the buffer ::malloc returned, or NULL
alloc_cb(handle, suggested_size, base) ==
    [base |-> base, len |-> suggested_size]

\* the next n bytes the peer of a stream sent: byte k of stream c is <<c, k>>
Peer(stream, n) == [i \in 1..n |-> <<stream, Len(rcvd[stream]) + i>>]

\* the memory of a buffer after a read delivered data into it
Filled(data, len) ==
    data \o [i \in 1..(len - Len(data)) |-> Garbage]

\* uv_buf_init(base, len) over a buffer holding content
uv_buf_init(content, len) == SubSeq(content, 1, len)

\* uv_write(&wd->req, stream, &wd->buf, 1, write_cb) returning 0: the request
\* joins the stream's write queue.  libuv tries the write at once when nothing
\* is queued ahead of it: try is what came of that ("written": the bytes went
\* out and the callback is pending; "queued": the socket took nothing)
Queued(q) == {i \in 1..Len(q) : q[i].st = "queued"}

\* mutant: a new request is put ahead of the requests already in the queue
uv_write_First(q, id, payload, try) ==
    <<[buf |-> id, data |-> payload, status |-> 0,
       st |-> IF Queued(q) # {} THEN "queued" ELSE try]>> \o q

uv_write(q, id, payload, try) ==
    Append(q, [buf |-> id, data |-> payload, status |-> 0,
               st |-> IF Queued(q) # {} THEN "queued" ELSE try])

\* wd->buf = uv_buf_init(in_data, nread): the payload of the echo write
WritePayload(content, nread) == uv_buf_init(content, nread)

\* mutant: the echo is written to another client than the one read from
WriteStream_Other(stream) == IF stream = 1 THEN 2 ELSE 1

\* the stream read_cb passes to uv_write
WriteStream(stream) == stream

\* mutant: a byte count of zero is taken for the end of the stream
IsReadError_OrZero(nread) == nread <= 0

\* else if (nread < 0): the read completions that close the connection
IsReadError(nread) == nread < 0

\* if (nread != UV_EOF) error(...)
LogsReadError(nread) == nread # UV_EOF

\* mutant: in_data is not zeroed when the write_data takes the buffer
free_in_data_Always(heap, id, handedOver) ==
    IF id # 0 THEN free_buf(heap, id, "read_cb") ELSE heap

\* mutant: the buffer is not freed at the end of read_cb
free_in_data_Never(heap, id, handedOver) == heap

\* if (in_data) ::free(in_data), with in_data zeroed once a write_data took it
free_in_data(heap, id, handedOver) ==
    IF id # 0 /\ ~handedOver THEN free_buf(heap, id, "read_cb") ELSE heap

\* read_cb(stream, nread, in_buf): heap is the heap after alloc_cb, id the
\* buffer in_buf->base points to (0 when it is NULL), content its memory; r is
\* the status uv_write returns and try what libuv's immediate attempt of an
\* accepted write comes to.  mem is what ::malloc(sizeof(write_data)) returned:
\* the result is not checked, and wd->req.data = wd on a NULL wd terminates
\* the process
read_cb(heap, stream, nread, id, content, mem, r, try) ==
    IF nread > 0 /\ mem = NULL THEN
        /\ crashed' = TRUE
        /\ UNCHANGED <<clients, bufs, wq, closing_handles, log, rcvd, sent,
                       wire>>
    ELSE IF nread > 0 THEN
        LET payload == WritePayload(content, nread)
            to == WriteStream(stream)
            wd == [heap EXCEPT ![id].wd = mem, ![id].owner = "write"]
        IN  /\ rcvd' = [rcvd EXCEPT ![stream] = @ \o SubSeq(content, 1, nread)]
            /\ IF r = 0 THEN
                   /\ wq' = [wq EXCEPT ![to] = uv_write(@, id, payload, try)]
                   /\ sent' = [sent EXCEPT ![to] = @ \o payload]
                   /\ wire' = IF wq'[to][Len(wq'[to])].st = "written"
                              THEN [wire EXCEPT ![to] = @ \o payload]
                              ELSE wire
                   /\ bufs' = free_in_data(wd, id, TRUE)
                   /\ UNCHANGED log
               ELSE
                   /\ bufs' = free_in_data(free_write_data(wd, id, "read_cb"),
                                           id, TRUE)
                   /\ log' = error(log, "Error on writing client stream", r)
                   /\ UNCHANGED <<wq, sent, wire>>
            /\ clients' = [clients EXCEPT ![stream].reads = @ + 1]
            /\ UNCHANGED <<closing_handles, crashed>>
    ELSE IF IsReadError(nread) THEN
        /\ log' = IF LogsReadError(nread)
                  THEN error(log, "Error on reading client stream", nread)
                  ELSE log
        /\ clients' = [close_and_free(clients, stream) EXCEPT
                          ![stream].reads = @ + 1, ![stream].ended = nread]
        /\ closing_handles' = closing_handles \cup {stream}
        /\ bufs' = free_in_data(heap, id, FALSE)
        /\ UNCHANGED <<wq, rcvd, sent, wire, crashed>>
    ELSE
        /\ bufs' = free_in_data(heap, id, FALSE)
        /\ clients' = [clients EXCEPT ![stream].reads = @ + 1]
        /\ UNCHANGED <<closing_handles, log, wq, rcvd, sent, wire, crashed>>

\* One read completion on an open connection.  The loop calls alloc_cb, reads
\* into the buffer and calls read_cb: with UV_ENOBUFS when alloc_cb gave no
\* memory, else with the number of bytes read, 0, UV_EOF or a read error.
ReadCb ==
    /\ ~crashed
    /\ UNCHANGED nw_vars
    /\ \E stream \in ConnIds :
        /\ clients[stream].st = "reading"
        /\ \/ \* ::malloc returned NULL
              LET buf == alloc_cb(stream, SuggestedSize, NULL)
              IN  read_cb(bufs, stream, UV_ENOBUFS, 0, <<>>, "live", 0,
                          "queued")
           \/ /\ NextBuf \in BufIds
              /\ \E nread \in (1..MaxChunk) \cup {0, UV_EOF, UV_ECONNRESET},
                    mem \in {"live", NULL}, r \in {0, UV_EPIPE},
                    try \in {"written", "queued"} :
                  LET id == NextBuf
                      buf == alloc_cb(stream, SuggestedSize, id)
                      n == IF nread > 0 THEN nread ELSE 0
                      heap == [bufs EXCEPT ![id].stream = stream,
                                           ![id].nread = nread,
                                           ![id].r = r,
                                           ![id].owner = "read"]
                  IN  /\ (nread <= 0 \/ r # 0) => try = "queued"
                      /\ nread <= 0 => r = 0 /\ mem = "live"
                      /\ mem = NULL => r = 0 /\ try = "queued"
                      /\ read_cb(heap, stream, nread, id,
                                 Filled(Peer(stream, n), buf.len), mem, r, try)
    /\ UNCHANGED <<loop_, server_, thrown>>

-----------------------------------------------------------------------------
(***************************************************************************)
(* The write path: the loop transmits queued writes in order and calls     *)
(* write_cb for each finished one, in order.                               *)
(***************************************************************************)

\* mutant: the write_data of a failed write is not freed
write_cb_LeakOnError(heap, l, req, status) ==
    [heap |-> IF status # 0 THEN heap
              ELSE free_write_data(heap, req.buf, "write_cb"),
     log |-> IF status # 0
             THEN error(l, "Error on writing client stream", status)
             ELSE l]

\* write_cb(req, status): frees the write_data, logs a failed write
write_cb(heap, l, req, status) ==
    [heap |-> free_write_data(heap, req.buf, "write_cb"),
     log |-> IF status # 0
             THEN error(l, "Error on writing client stream", status)
             ELSE l]

\* the socket becomes writable: the first queued write of a stream is
\* transmitted (status 0) or fails (status < 0); its callback is then pending
LoopWrite ==
    /\ ~crashed
    /\ UNCHANGED nw_vars
    /\ \E stream \in ConnIds, status \in {0, UV_ECONNRESET} :
        /\ clients[stream].st = "reading"
        /\ Queued(wq[stream]) # {}
        /\ LET i == CHOOSE j \in Queued(wq[stream]) :
                        \A k \in Queued(wq[stream]) : j <= k
               req == wq[stream][i]
           IN  /\ wq' = [wq EXCEPT ![stream][i].st =
                                       IF status = 0 THEN "written" ELSE "failed",
                                   ![stream][i].status = status]
               /\ wire' = IF status = 0
                          THEN [wire EXCEPT ![stream] = @ \o req.data]
                          ELSE wire
    /\ UNCHANGED <<loop_, server_, thrown, clients, bufs, closing_handles, log,
                   rcvd, sent, crashed>>

\* the loop calls write_cb for the oldest request of a stream, once finished
WriteCb ==
    /\ ~crashed
    /\ UNCHANGED nw_vars
    /\ \E stream \in ConnIds :
        /\ clients[stream].st = "reading"
        /\ wq[stream] # <<>>
        /\ Head(wq[stream]).st # "queued"
        /\ LET req == Head(wq[stream])
               after == write_cb(bufs, log, req, req.status)
           IN  /\ bufs' = after.heap
               /\ log' = after.log
               /\ wq' = [wq EXCEPT ![stream] = Tail(@)]
    /\ UNCHANGED <<loop_, server_, thrown, clients, closing_handles, rcvd, sent,
                   wire, crashed>>

-----------------------------------------------------------------------------
(***************************************************************************)
(* The loop finishes a requested close in a later iteration.  For a stream *)
(* it ends the requests still in its write queue: write_cb runs for each,  *)
(* with UV_ECANCELED for a write that was never transmitted.               *)
(*                                                                         *)
(* The loop reads and writes the handle's memory when it does so.  A       *)
(* handle whose memory was freed or re-initialised in between is used      *)
(* after its lifetime: the step then either goes as if the memory were     *)
(* untouched or terminates the process.                                    *)
(***************************************************************************)
RECURSIVE EndRequests(_, _, _)
EndRequests(heap, l, q) ==
    IF q = <<>> THEN [heap |-> heap, log |-> l]
    ELSE LET req == Head(q)
             status == IF req.st = "queued" THEN UV_ECANCELED ELSE req.status
             after == write_cb(heap, l, req, status)
         IN  EndRequests(after.heap, after.log, Tail(q))

\* the handle's memory is no longer the handle the close was requested on
Dangling(h) ==
    IF h = Server THEN server_.reinit ELSE clients[h].frees > 0

CloseOutcomes(h) == IF Dangling(h) THEN {"asif", "crash"} ELSE {"asif"}

LoopFinishClose ==
    /\ ~crashed
    /\ UNCHANGED nw_vars
    /\ \E h \in closing_handles, outcome \in {"asif", "crash"} :
        /\ outcome \in CloseOutcomes(h)
        /\ IF outcome = "crash" THEN
               /\ crashed' = TRUE
               /\ UNCHANGED <<server_, clients, bufs, wq, closing_handles, log>>
           ELSE IF h = Server THEN
               /\ server_' = [server_ EXCEPT !.st = "closed"]
               /\ closing_handles' = closing_handles \ {h}
               /\ UNCHANGED <<clients, bufs, wq, log, crashed>>
           ELSE LET after == EndRequests(bufs, log, wq[h])
                IN  /\ bufs' = after.heap
                    /\ log' = after.log
                    /\ wq' = [wq EXCEPT ![h] = <<>>]
                    /\ clients' = [clients EXCEPT ![h].st = "closed"]
                    /\ closing_handles' = closing_handles \ {h}
                    /\ UNCHANGED <<server_, crashed>>
    /\ UNCHANGED <<loop_, thrown, rcvd, sent, wire>>

-----------------------------------------------------------------------------
Next ==
    \/ Start
    \/ ConnectionCb
    \/ ReadCb
    \/ LoopWrite
    \/ WriteCb
    \/ LoopFinishClose

Spec == Init /\ [][Next]_vars

-----------------------------------------------------------------------------
(***************************************************************************)
(* src/native_wrap: the third-party library (third_party.cpp) and its      *)
(* wrapper (native_wrap.cpp).  A V8 object made by NewInstance carries the *)
(* handle of its third-party object in internal field 1 and a Tracker in   *)
(* internal field 0.  The Tracker is a node::ObjectWrap: it holds the V8   *)
(* object weakly, and when the garbage collector finds the object          *)
(* unreachable the weak callback deletes the Tracker, whose destructor     *)
(* destroys the third-party object.                                        *)
(***************************************************************************)

\* round the integer 2^53 + m, m >= 0, to a double: to the nearest even
\* integer, and of two equally near ones to the one with the even mantissa
Round53(m) ==
    IF m % 2 = 0 THEN m
    ELSE IF (m - 1) % 4 = 0 THEN m - 1 ELSE m + 1

\* the double nearest to d + n, for an integer n >= 0 (JavaScript's d + n)
DoubleAdd(d, n) ==
    IF d.hi = 0 \/ d.lo + n <= 0 THEN Double(d.hi, d.lo + n)
    ELSE Double(d.hi, Round53(d.lo + n))

\* double Object::PlusOne() { return ++value_; }: the new value_
Object_PlusOne(value) == DoubleAdd(value, 1)

\* handle_t create(double value): new Object(value) at the next free address
NextObject == 1 + Cardinality({h \in ObjIds : objects[h].st # "unalloc"})

create(heap, obj, value) ==
    [heap EXCEPT ![obj].st = "live", ![obj].value_ = value]

\* void destroy(handle_t handle): delete obj
destroy(heap, handle) ==
    [heap EXCEPT ![handle].st = "destroyed", ![handle].destroys = @ + 1]

\* double plus_one(handle_t handle): obj->PlusOne().  On an object that was
\* destroyed the call reads and writes freed memory (counted in stale)
plus_one(heap, handle) ==
    IF heap[handle].st = "live"
    THEN [heap EXCEPT ![handle].value_ = Object_PlusOne(@)]
    ELSE [heap EXCEPT ![handle].stale = @ + 1]

\* mutant: the destructor of the Tracker leaves the third-party object alone
Tracker_destructor_NoDestroy(heap, obj_) == heap

\* ~Tracker() { third_party::destroy(obj_); }
Tracker_destructor(heap, obj_) == destroy(heap, obj_)

\* mutant: every V8 object is unwrapped to the first third-party object
Unwrap_First(handle) == 1

\* Unwrap(handle): handle->GetAlignedPointerFromInternalField(1)
Unwrap(handle) == handle.field1

\* ThirdParty::NewInstance(isolate, value) from third_party::create on: the
\* V8 object is made from the factory template, obj is stored in its
\* internal field 1, and Tracker::New(obj, handle) wraps it
NewInstance(hs, i, obj, value) ==
    [hs EXCEPT ![i] = [NoHandle EXCEPT !.st = "reachable",
                                       !.field1 = obj,
                                       !.tracker = "wrapped",
                                       !.obj_ = obj,
                                       !.v = value]]

\* the JavaScript values createObject is called with: nothing, numbers, and
\* a value NumberValue() has no number for (a Symbol)
Symbol == [type |-> "symbol", val |-> 0]
Dbl(d) == [type |-> "number", val |-> d]
CreateArgs ==
    {<<>>, <<Dbl(Double(1, -1))>>, <<Dbl(Double(1, 0))>>, <<Symbol>>}

\* Maybe<double>: a number, or nothing
Just(d) == [just |-> TRUE, val |-> d]
Nothing == [just |-> FALSE, val |-> Double(0, 0)]

\* args[0]->NumberValue(context)
NumberValue(arg) == IF arg.type = "number" THEN Just(arg.val) ELSE Nothing

\* args[0]->IsUndefined() ? 0 : args[0]->NumberValue(context).ToChecked(),
\* before ToChecked(), which ends the process when there is no number
CreateValue(args) ==
    IF Len(args) = 0 THEN Just(Double(0, 0)) ELSE NumberValue(args[1])

\* createObject(args).  made tells whether the template's NewInstance()
\* produced an object: ToLocalChecked() ends the process when it did not
CreateObject ==
    /\ ~aborted
    /\ NextObject \in ObjIds
    /\ \E args \in CreateArgs, made \in BOOLEAN :
        LET maybe == CreateValue(args)
            value == maybe.val
            obj == NextObject
        IN  IF ~maybe.just THEN
                /\ made
                /\ aborted' = TRUE
                /\ UNCHANGED <<objects, handles, result>>
            ELSE IF ~made THEN
                /\ objects' = create(objects, obj, value)
                /\ aborted' = TRUE
                /\ UNCHANGED <<handles, result>>
            ELSE
                /\ objects' = create(objects, obj, value)
                /\ handles' = NewInstance(handles, obj, obj, value)
                /\ result' = "returned"
                /\ UNCHANGED aborted
    /\ UNCHANGED echo_vars

\* ThirdParty::PlusOne(verified_handle): plus_one(Unwrap(verified_handle)),
\* on the V8 object i, reached through the method or the module function
PlusOne(i, route) ==
    LET obj == Unwrap(handles[i])
        after == plus_one(objects, obj)
    IN  /\ objects' = after
        /\ handles' = [handles EXCEPT ![i].k = @ + 1,
                                      ![i].via = @ \cup {route},
                                      ![i].ret = after[obj].value_]
        /\ result' = "returned"
        /\ aborted' = (after[obj].st # "live")

\* obj.plusOne(): the prototype method, which V8 runs only on a receiver
\* made from the template; JavaScript holds reachable objects only
MethodPlusOne ==
    /\ ~aborted
    /\ \E i \in ObjIds :
        /\ handles[i].st = "reachable"
        /\ handles[i].k < MaxCalls
        /\ PlusOne(i, "method")
    /\ UNCHANGED echo_vars

\* the values the module-level plusOne is called with: an object made by
\* createObject, an object made in JavaScript on ThirdParty's prototype
\* (Object.create(Object.getPrototypeOf(obj))), and any other object
Wrapped(i) == [kind |-> "wrapped", id |-> i, proto |-> "ThirdParty"]
Forged == [kind |-> "forged", id |-> 0, proto |-> "ThirdParty"]
Plain == [kind |-> "plain", id |-> 0, proto |-> "Object"]

\* IsInstanceOrThrow: handle->GetPrototype() == prototype
IsInstance(handle) == handle.proto = "ThirdParty"

\* the module-level plusOne(args)
ModulePlusOne ==
    /\ ~aborted
    /\ \E n \in 0..2 :
       \E arg \in {Wrapped(i) : i \in {j \in ObjIds :
                                          handles[j].st = "reachable"}}
                  \cup {Forged, Plain} :
           IF n # 1 THEN
               /\ arg = Plain
               /\ result' = "Wrong number of arguments"
               /\ UNCHANGED <<objects, handles, aborted>>
           ELSE IF ~IsInstance(arg) THEN
               /\ result' = "<this> is not a ThirdParty"
               /\ UNCHANGED <<objects, handles, aborted>>
           ELSE IF arg.kind = "wrapped" THEN
               /\ handles[arg.id].k < MaxCalls
               /\ PlusOne(arg.id, "module")
           ELSE
               \* the object has no internal field 1: Unwrap reads outside
               \* of it and plus_one works on whatever is found there
               /\ aborted' = TRUE
               /\ UNCHANGED <<objects, handles, result>>
    /\ UNCHANGED echo_vars

\* JavaScript gives up its last reference to an object
Drop ==
    /\ ~aborted
    /\ \E i \in ObjIds :
        /\ handles[i].st = "reachable"
        /\ handles' = [handles EXCEPT ![i].st = "unreachable"]
    /\ UNCHANGED <<objects, result, aborted>>
    /\ UNCHANGED echo_vars

\* the garbage collector reclaims an unreachable object: the weak callback
\* of its Tracker (node::ObjectWrap) deletes the Tracker
Collect ==
    /\ ~aborted
    /\ \E i \in ObjIds :
        /\ handles[i].st = "unreachable"
        /\ handles[i].tracker = "wrapped"
        /\ objects' = Tracker_destructor(objects, handles[i].obj_)
        /\ handles' = [handles EXCEPT ![i].st = "collected",
                                      ![i].tracker = "deleted"]
    /\ UNCHANGED <<result, aborted>>
    /\ UNCHANGED echo_vars

NextNW ==
    \/ CreateObject
    \/ MethodPlusOne
    \/ ModulePlusOne
    \/ Drop
    \/ Collect

SpecNW == Init /\ [][NextNW]_vars

-----------------------------------------------------------------------------
(***************************************************************************)
(* The properties.                                                         *)
(***************************************************************************)
Allocated(id) == bufs[id].owner # "unalloc"
InFlight(id) == \E c \in ConnIds : \E i \in 1..Len(wq[c]) : wq[c][i].buf = id
WriteFailures ==
    Logged("Error on writing client stream", UV_EPIPE)
    + Logged("Error on writing client stream", UV_ECONNRESET)

\* C1 (echo fidelity): on every connection the payloads of the writes issued,
\* concatenated in issue order, are the bytes its read completions with a
\* positive byte count delivered, concatenated in arrival order, and the
\* payload of each write in flight is exactly the nread bytes of its read.
C1_EchoFidelity ==
    \A c \in ConnIds :
        /\ sent[c] = rcvd[c]
        /\ \A i \in 1..Len(wq[c]) :
               Len(wq[c][i].data) = bufs[wq[c][i].buf].nread

\* C2 (graceful close): once end-of-stream was delivered on a connection on
\* which no write failed, every byte read from it has been transmitted back,
\* and no error is logged for the writes the close found in flight.
C2_GracefulClose ==
    \A c \in ConnIds :
        (clients[c].ended = UV_EOF /\ WriteFailures = 0)
            => /\ wire[c] = rcvd[c]
               /\ Logged("Error on writing client stream", UV_ECANCELED) = 0

\* the argument lists that hand start() a port number
PortArgs == {a \in StartArgs : Len(a) = 1 /\ a[1].type = "number"}
StartStatuses == {0, UV_EINVAL} \X {0, UV_EACCES} \X {0, UV_EADDRINUSE}

\* C3 (no double start): once start() has succeeded, a call of start() with
\* any port and whatever the library calls would return throws "Already
\* started" and leaves loop_, server_, the loop's closing handles and stderr
\* as they are; and "Already started" is only ever thrown in such a state.
C3_NoDoubleStart ==
    /\ loop_ # NULL =>
           \A args \in PortArgs, rs \in StartStatuses :
               start(args, rs[1], rs[2], rs[3])
                   = StartResult(loop_, server_, closing_handles, log,
                                 "Already started")
    /\ thrown = "Already started" => loop_ # NULL

\* C3 witness: a second call was rejected while the first listener runs
C3_Witness ==
    /\ thrown = "Already started"
    /\ loop_ = default_loop
    /\ server_.st = "listening"

\* C4 (start-failure isolation): a call of start() that failed left loop_
\* NULL; loop_ is set only by a call in which parsing, bind and listen all
\* succeeded; and from every not-started state a call with a port whose
\* library calls all succeed brings the service to running.
C4_StartFailureIsolation ==
    /\ thrown = "Failed to start" => loop_ = NULL
    /\ loop_ = NULL =>
           \A args \in PortArgs, rs \in StartStatuses :
               LET res == start(args, rs[1], rs[2], rs[3])
               IN  /\ res.loop_ # NULL <=> rs = <<0, 0, 0>>
                   /\ res.loop_ # NULL <=> res.thrown = ""
                   /\ rs = <<0, 0, 0>> => res.server_.st = "listening"

\* C4 witness: the service runs after an earlier call of start() had failed
C4_Witness ==
    /\ FailedStarts > 0
    /\ thrown = ""
    /\ loop_ = default_loop
    /\ server_.st = "listening"

\* C5 (no resources left open on a failed start): after a call of start()
\* that failed, the listener handle it initialised is closed or closing, and
\* no call re-initialises a handle the loop still has registered.
C5_NoHandleLeftOpen ==
    /\ thrown = "Failed to start" => server_.st \in {"zero", "closing", "closed"}
    /\ ~server_.reinit

\* C6 (connection independence): every byte written to a connection, queued
\* or transmitted, was read from that same connection, and every write
\* request in a connection's queue carries a buffer read on that connection.
C6_ConnectionIndependence ==
    \A c \in ConnIds :
        /\ \A i \in 1..Len(sent[c]) : sent[c][i][1] = c
        /\ \A i \in 1..Len(wire[c]) : wire[c][i][1] = c
        /\ \A i \in 1..Len(wq[c]) : bufs[wq[c][i].buf].stream = c

\* C6 witness: two connections are open and each had bytes echoed
C6_Witness ==
    \E c, d \in ConnIds :
        /\ c # d
        /\ clients[c].st = "reading" /\ clients[d].st = "reading"
        /\ sent[c] # <<>> /\ sent[d] # <<>>

\* the step is the read completion, with byte count n, that buffer id was
\* allocated for
ReadStep(id, n) ==
    /\ ~Allocated(id)
    /\ bufs'[id].owner # "unalloc"
    /\ bufs'[id].nread = n

\* C7 (zero-length read no-op): a read completion with byte count zero issues
\* no write and closes nothing: the connection stays open and reading, and
\* the step only allocates and frees the buffer of that completion.
C7_ZeroReadNoOp ==
    [][\A id \in BufIds :
           ReadStep(id, 0) =>
               LET c == bufs'[id].stream
               IN  /\ UNCHANGED <<wq, sent, wire, rcvd, log, closing_handles,
                                  loop_, server_, crashed>>
                   /\ clients[c].st = "reading"
                   /\ clients' = [clients EXCEPT ![c].reads = @ + 1]
                   /\ bufs'[id].owner = "freed"
                   /\ bufs'[id].frees = 1
                   /\ bufs'[id].wd = "none"
                   /\ \A other \in BufIds \ {id} : bufs'[other] = bufs[other]
      ]_vars

\* C7 witness: a zero-length read completed on a connection that is open
C7_Witness ==
    \E id \in BufIds :
        /\ Allocated(id)
        /\ bufs[id].nread = 0
        /\ clients[bufs[id].stream].st = "reading"

\* C8 (exactly-once destruction): no client handle is closed or freed more
\* than once; a connection on which a negative byte count was delivered has
\* been closed once and freed once; and the read completion that delivers it
\* logs an error exactly when the code is not UV_EOF.
C8_DestroyedOnce ==
    /\ [](\A c \in ConnIds :
              /\ clients[c].closes <= 1
              /\ clients[c].frees <= 1
              /\ clients[c].ended # 0 =>
                     clients[c].closes = 1 /\ clients[c].frees = 1)
    /\ [][\A c \in ConnIds :
              (clients[c].ended = 0 /\ clients'[c].ended # 0) =>
                  /\ clients[c].closes = 0 /\ clients[c].frees = 0
                  /\ clients'[c].st = "closing"
                  /\ log' = IF clients'[c].ended = UV_EOF THEN log
                            ELSE error(log, "Error on reading client stream",
                                       clients'[c].ended)
      ]_vars

\* C8 witness: one connection ended by end-of-stream, one by a read error
C8_Witness ==
    \E c, d \in ConnIds :
        /\ clients[c].ended = UV_EOF
        /\ clients[d].ended = UV_ECONNRESET
        /\ clients[c].closes = 1 /\ clients[d].frees = 1

\* the write completions that have run for the buffers read on a connection
WriteCbs(b, c) ==
    Cardinality({id \in BufIds : b[id].stream = c /\ b[id].freedBy = "write_cb"})

C10_BufferOwnership ==
    \A id \in BufIds :
        /\ bufs[id].frees <= 1
        /\ bufs[id].wdFrees <= 1
        /\ Allocated(id) =>
               /\ bufs[id].owner \in {"write", "freed"}
               /\ bufs[id].owner = "write" <=> InFlight(id)
               /\ bufs[id].owner = "freed" <=> bufs[id].frees = 1
               /\ Cardinality({<<c, i>> \in ConnIds \X (1..MaxReads) :
                                  i <= Len(wq[c]) /\ wq[c][i].buf = id}) <= 1
               /\ InFlight(id) => bufs[id].frees = 0 /\ bufs[id].wd = "live"
               /\ (bufs[id].nread > 0 /\ bufs[id].r = 0) =>
                      bufs[id].freedBy \in {"none", "write_cb"}
               /\ (bufs[id].nread > 0 /\ bufs[id].r # 0) =>
                      /\ bufs[id].freedBy = "read_cb"
                      /\ bufs[id].wdFrees = 1
               /\ bufs[id].nread <= 0 =>
                      bufs[id].freedBy = "read_cb" /\ bufs[id].wd = "none"

\* C10 witness: one buffer was freed by write_cb, another by the issuing path
\* after uv_write refused it
C10_Witness ==
    \E id, other \in BufIds :
        /\ bufs[id].freedBy = "write_cb" /\ bufs[id].frees = 1
        /\ bufs[other].nread > 0 /\ bufs[other].r # 0 /\ bufs[other].frees = 1


\* C11 (the service survives runtime errors): once start() has succeeded the
\* listener handle stays listening and the process stays alive, whatever
\* accept, read and write errors occur.
C11_ServiceSurvives ==
    loop_ # NULL => server_.st = "listening" /\ ~crashed

\* C12 as claimed (per-connection callback ordering): at most one echo write
\* is in flight on a connection.
C12_OneWriteInFlight ==
    \A c \in ConnIds : Len(wq[c]) <= 1

\* the buffers of the write requests of a queue, in queue order
WqBufs(q) == [i \in 1..Len(q) |-> q[i].buf]

\* C12 as amended: the writes in flight on a connection are held in the order
\* in which they were issued; a step adds one write at the end of that order
\* (the read completion that issues it), takes the oldest one out (its write
\* completion runs), ends all of them (the close is finished) or leaves the
\* order alone: no two callbacks run in one step and write completions run in
\* issue order, while a read completion may find earlier writes in flight.
C12_WriteCompletionOrder ==
    /\ [](\A c \in ConnIds : \A i, j \in 1..Len(wq[c]) :
              i < j => wq[c][i].buf < wq[c][j].buf)
    /\ [][\A c \in ConnIds :
              \/ WqBufs(wq'[c]) = WqBufs(wq[c])
              \/ /\ Len(wq'[c]) = Len(wq[c]) + 1
                 /\ SubSeq(WqBufs(wq'[c]), 1, Len(wq[c])) = WqBufs(wq[c])
                 /\ ~Allocated(wq'[c][Len(wq'[c])].buf)
                 /\ \A d \in ConnIds \ {c} : wq'[d] = wq[d]
              \/ /\ wq[c] # <<>>
                 /\ wq'[c] = Tail(wq[c])
                 /\ Head(wq[c]).st # "queued"
                 /\ bufs'[Head(wq[c]).buf].freedBy = "write_cb"
                 /\ \A d \in ConnIds \ {c} : wq'[d] = wq[d]
                 /\ \A id \in BufIds :
                        ~Allocated(id) => bufs'[id].owner = "unalloc"
              \/ /\ wq'[c] = <<>>
                 /\ clients[c].st = "closing" /\ clients'[c].st = "closed"
      ]_vars

\* C12 witness: a read completion ran on a connection while the write of an
\* earlier read on it was still in flight, and both writes are in flight
C12_Witness ==
    \E c \in ConnIds :
        /\ clients[c].st = "reading"
        /\ Len(wq[c]) = 2
        /\ wq[c][1].buf < wq[c][2].buf

\* C13 (a write-issue failure closes the connection): the read completion
\* whose uv_write returns a non-zero status closes the connection.
C13_WriteIssueFailureCloses ==
    [][\A id \in BufIds :
           (\E n \in 1..MaxChunk : ReadStep(id, n)) /\ bufs'[id].r # 0 =>
               LET c == bufs'[id].stream
               IN  /\ clients'[c].st = "closing"
                   /\ c \in closing_handles'
      ]_vars

\* C14 (an asynchronous write failure is log-only): a write completion with a
\* non-zero status on an open connection frees the payload and the request
\* of that write, each once, prints one error line and changes nothing else:
\* the connection is neither closed nor freed and still reads; and the write
\* completions the loop runs when it finishes a close neither close nor free
\* the handle again.
C14_AsyncWriteFailureLogOnly ==
    [][\A c \in ConnIds :
           /\ (/\ clients[c].st = "reading"
               /\ wq[c] # <<>>
               /\ wq'[c] = Tail(wq[c])
               /\ Head(wq[c]).status # 0) =>
                  LET req == Head(wq[c])
                  IN  /\ bufs' = free_write_data(bufs, req.buf, "write_cb")
                      /\ bufs'[req.buf].frees = 1
                      /\ bufs'[req.buf].wdFrees = 1
                      /\ log' = error(log, "Error on writing client stream",
                                      req.status)
                      /\ clients'[c].st = "reading"
                      /\ UNCHANGED <<clients, closing_handles, server_, loop_,
                                     rcvd, sent, wire, crashed>>
           /\ (clients[c].st = "closing" /\ clients'[c].st = "closed") =>
                  /\ clients'[c].closes = clients[c].closes
                  /\ clients'[c].frees = clients[c].frees
                  /\ \A i \in 1..Len(wq[c]) :
                         /\ bufs'[wq[c][i].buf].frees = 1
                         /\ bufs'[wq[c][i].buf].wdFrees = 1
      ]_vars

\* C14 witness: on an open connection the write of the first chunk failed
\* and its completion ran, and the chunk read after it was transmitted
C14_Witness ==
    \E c \in ConnIds : \E id, later \in BufIds :
        /\ clients[c].st = "reading"
        /\ clients[c].closes = 0 /\ clients[c].frees = 0
        /\ Logged("Error on writing client stream", UV_ECONNRESET) > 0
        /\ bufs[id].stream = c /\ bufs[id].freedBy = "write_cb"
        /\ id < later
        /\ bufs[later].stream = c /\ bufs[later].nread > 0
        /\ wire[c] = <<<<c, 2>>>>

\* C15 (accept failure cleanup): a client handle whose memory connection_cb
\* freed had its close requested as well.
C15_AcceptFailureCleanup ==
    \A c \in ConnIds : clients[c].frees > 0 => clients[c].closes > 0

\* the error lines with a prefix that l2 has and l1 has not
NewLines(l1, l2, prefix) ==
    {e \in BagToSet(l2) : e.prefix = prefix /\ CopiesIn(e, l2) > CopiesIn(e, l1)}

\* C16 (listener error at dispatch): the invocation of connection_cb with a
\* negative status prints one error line with that status and changes
\* nothing else: no client handle is allocated, and the listener, the
\* existing connections, their buffers and their writes are as before.
C16_ListenerErrorLogOnly ==
    [][(server_.st = "listening"
           /\ NewLines(log, log', "Error on listening") # {}) =>
           /\ \E e \in NewLines(log, log', "Error on listening") :
                  /\ e.status < 0
                  /\ log' = error(log, "Error on listening", e.status)
           /\ UNCHANGED <<loop_, server_, thrown, clients, bufs, wq,
                          closing_handles, rcvd, sent, wire, crashed>>
      ]_vars

\* C16 witness: connection_cb was invoked with a negative status while a
\* connection was open, and the listener still listens
C16_Witness ==
    /\ Logged("Error on listening", UV_EMFILE) > 0
    /\ server_.st = "listening"
    /\ \E c \in ConnIds : clients[c].st = "reading"

\* the write requests, over all connections, that carry buffer id
Carriers(q, id) ==
    {<<c, i>> \in ConnIds \X (1..MaxReads) : i <= Len(q[c]) /\ q[c][i].buf = id}

\* C17 (no read buffer outlives its read completion unowned): after the read
\* completion a buffer was allocated for, the buffer is owned by exactly one
\* write in flight on its connection when a write was issued for it, and is
\* freed once otherwise; and the read completion after a failed allocation
\* delivers UV_ENOBUFS, closes the connection, issues no write and frees
\* nothing.
C17_NoBufferOutlivesRead ==
    [][/\ \A id \in BufIds :
              (~Allocated(id) /\ bufs'[id].owner # "unalloc") =>
                  LET b == bufs'[id]
                  IN  IF b.nread > 0 /\ b.r = 0
                      THEN /\ b.owner = "write" /\ b.frees = 0
                           /\ Cardinality(Carriers(wq', id)) = 1
                           /\ \A p \in Carriers(wq', id) : p[1] = b.stream
                      ELSE /\ b.owner = "freed" /\ b.frees = 1
                           /\ Carriers(wq', id) = {}
       /\ \A c \in ConnIds :
              (clients[c].ended = 0 /\ clients'[c].ended = UV_ENOBUFS) =>
                  /\ clients[c].st = "reading"
                  /\ clients'[c].st = "closing"
                  /\ clients'[c].closes = 1
                  /\ c \in closing_handles'
                  /\ UNCHANGED <<bufs, wq, sent, wire, rcvd>>
      ]_vars

\* C17 witness: a read completion freed its buffer, another handed its
\* buffer to a write in flight, and an allocation failure closed a connection
C17_Witness ==
    /\ \E c \in ConnIds : clients[c].ended = UV_ENOBUFS
    /\ \E id, other \in BufIds :
           /\ bufs[id].owner = "write" /\ InFlight(id)
           /\ bufs[other].freedBy = "read_cb"

\* C18 (no use of a freed connection handle): the memory of a client handle
\* is freed only once the close requested on it has completed.
C18_FreedOnlyAfterClose ==
    \A c \in ConnIds : clients[c].frees > 0 => clients[c].st = "closed"

\* the V8 objects NewInstance has made
Made == {i \in ObjIds : handles[i].st # "none"}

\* C19 (native wrapper lifetime): no third-party object is destroyed twice
\* and plus_one is never applied to a destroyed one; the handle in a V8
\* object's internal field is the handle its tracker holds, and no two V8
\* objects carry the same one; a third-party object is destroyed exactly
\* when the tracker of its V8 object is deleted, which happens only once the
\* V8 object is unreachable, and an object that was collected had its
\* third-party object destroyed once.
C19_WrapperLifetime ==
    /\ [](/\ \A h \in ObjIds :
                objects[h].destroys <= 1 /\ objects[h].stale = 0
          /\ \A i \in Made :
                LET h == handles[i].field1
                IN  /\ h = handles[i].obj_
                    /\ objects[h].st \in {"live", "destroyed"}
                    /\ \A j \in Made \ {i} : handles[j].field1 # h
                    /\ objects[h].st = "destroyed"
                           <=> handles[i].tracker = "deleted"
                    /\ objects[h].st = "destroyed"
                           => handles[i].st = "collected"
                    /\ handles[i].st = "collected"
                           => objects[h].destroys = 1)
    /\ [][\A h \in ObjIds :
              objects'[h].destroys # objects[h].destroys =>
                  \E i \in Made :
                      /\ handles[i].obj_ = h
                      /\ handles[i].st = "unreachable"
                      /\ handles[i].tracker = "wrapped"
                      /\ handles'[i].tracker = "deleted"
      ]_vars

\* C19 witness: one object was collected and its third-party object
\* destroyed, while plus_one was applied to another, still reachable one
C19_Witness ==
    \E i, j \in Made :
        /\ handles[i].st = "collected"
        /\ objects[handles[i].field1].destroys = 1
        /\ handles[i].k > 0
        /\ handles[j].st = "reachable"
        /\ handles[j].k > 0
        /\ objects[handles[j].field1].st = "live"

RECURSIVE Increments(_, _)
Increments(v, k) ==
    IF k = 0 THEN v ELSE Object_PlusOne(Increments(v, k - 1))

\* v is an integer below 2^53 and v + k is at most 2^53
InExactRange(v, k) == v.hi = 0 \/ v.lo + k <= 0

=============================================================================
